---- MODULE Spec2Model ----
(***************************************************************************)
(* A model of the harpoon mark store (crates/workspace/src/harpoon.rs) and *)
(* of the backlinks panel (crates/backlinks_panel/src/backlinks_panel.rs). *)
(*                                                                         *)
(* Rust vectors are 0-indexed and TLA+ sequences 1-indexed: slot s of the  *)
(* code is element s + 1 of the sequence that models the vector.           *)
(* Option<T> is modelled as a sequence of length at most one: None is <<>> *)
(* and Some(x) is <<x>>.  Where the code looks inside a string (file names, *)
(* file contents, patterns) the string is a sequence of one-character      *)
(* strings.                                                                *)
(***************************************************************************)
EXTENDS Integers, Sequences, FiniteSets, TLC

\* ------------------------------------------------------------ bounds
\* remove_mark and get_mark are called with slots 0..MaxSlotArg.
MaxSlotArg == 10
\* Number of projects of the application.
NumProjects == 3
\* The store a picker is opened on has seen at most MaxStoreOps calls.
MaxStoreOps == 3
\* Number of lines of the markdown file whose content varies.
MaxLines == 2

\* ------------------------------------------------------------ constants
MAX_HARPOON_SLOTS == 9

\* ------------------------------------------------------------ Option
None == <<>>
Some(x) == <<x>>
IsSome(o) == Len(o) = 1
IsNone(o) == Len(o) = 0
Unwrap(o) == o[1]

\* ------------------------------------------------------------ paths
\* A path is a sequence of components.  The mark store never looks inside
\* a component, so the paths it is given have whole strings as components;
\* the backlinks panel does, so its paths spell their components out.

\* Path::file_name: the last component, None for the empty path.
file_name(path) == IF Len(path) = 0 THEN None ELSE Some(path[Len(path)])

ProjectPath(w, p) == [worktree_id |-> w, path |-> p]

\* The project paths offered to mark_current_file: a file, the worktree
\* root (which has no file name), a file of the same name in a directory,
\* and a file of the same path in another worktree.
PathPool ==
    << ProjectPath(1, <<"a.md">>),
       ProjectPath(1, <<>>),
       ProjectPath(1, <<"d", "a.md">>),
       ProjectPath(2, <<"a.md">>) >>
\* The paths the user marks.  The store only compares paths for equality
\* and takes the last component as the display name, so two paths that
\* differ in both show every case of its operations.
MarkPaths == {PathPool[1], PathPool[2]}

VARIABLES
    marks,            \* HarpoonStore.marks: Vec<Option<HarpoonMark>>
    call,             \* the last call on the store: what it found, returned, emitted
    project_state,    \* per project entity: "live" or "dropped"
    stores,           \* GlobalHarpoonStore.stores: project -> store entity
    next_entity,      \* number of store entities created by cx.new so far
    handles,          \* per project: the store handles callers were given
    got,              \* the last get_or_create_harpoon_store call and its result
    picker,           \* the HarpoonPicker shown, if any
    workspace_alive,  \* whether HarpoonPicker.workspace still upgrades
    pcall,            \* the last call on the picker: what it emitted and opened
    worktrees,        \* the project's worktree store: the worktrees and their entries
    fs,               \* the file system: absolute path -> content of a readable file
    current_file_path,\* BacklinksPanel.current_file_path
    entries,          \* BacklinksPanel.entries
    update_task,      \* BacklinksPanel.update_task
    scanned,          \* the last direct call of find_backlinks and its result
    bcall             \* the last step of the panel: the call and whether it spawned a scan

storeVars == <<marks, call>>
globalVars == <<project_state, stores, next_entity, handles, got>>
pickerVars == <<picker, workspace_alive, pcall>>
worldVars == <<worktrees, fs>>
panelVars == <<current_file_path, entries, update_task>>
backlinkVars == <<worktrees, fs, current_file_path, entries, update_task, scanned,
                  bcall>>
vars == <<marks, call, project_state, stores, next_entity, handles, got,
          picker, workspace_alive, pcall,
          worktrees, fs, current_file_path, entries, update_task, scanned,
          bcall>>

\* ------------------------------------------------------------ HarpoonStore
HarpoonMark(p, name) == [project_path |-> p, display_name |-> name]

\* vec![None; n]
RECURSIVE vec_none(_)
vec_none(n) == IF n = 0 THEN <<>> ELSE Append(vec_none(n - 1), None)

\* HarpoonSettings::default().max_slots
default_max_slots == Some(MAX_HARPOON_SLOTS)

\* HarpoonStore::new: the marks of a new store.
new_marks ==
    LET max_slots == IF IsSome(default_max_slots) THEN Unwrap(default_max_slots)
                     ELSE MAX_HARPOON_SLOTS
    IN  vec_none(max_slots)

\* Mutant of position_none_from: the last empty slot, not the first.
RECURSIVE position_none_last(_, _)
position_none_last(m, i) ==
    IF i >= Len(m) THEN None
    ELSE IF IsNone(m[Len(m) - i]) THEN Some(Len(m) - i - 1)
    ELSE position_none_last(m, i + 1)

\* self.marks.iter().position(|mark| mark.is_none()), scanning from slot i.
RECURSIVE position_none_from(_, _)
position_none_from(m, i) ==
    IF i >= Len(m) THEN None
    ELSE IF IsNone(m[i + 1]) THEN Some(i)
    ELSE position_none_from(m, i + 1)

\* Mutant of mark_slot: a full store reuses its last slot.
mark_slot_full_last(m) ==
    LET pos == position_none_from(m, 0)
    IN  IF IsSome(pos) THEN Unwrap(pos) ELSE Len(m) - 1

\* The slot mark_current_file writes: the first empty one, else slot 0.
mark_slot(m) ==
    LET pos == position_none_from(m, 0)
    IN  IF IsSome(pos) THEN Unwrap(pos) ELSE 0

\* project_path.path.file_name().and_then(to_str).unwrap_or("Unknown")
display_name_of(p) ==
    LET n == file_name(p.path)
    IN  IF IsSome(n) THEN Unwrap(n) ELSE "Unknown"

\* Mutant of store_mark: a full store grows by one slot.
store_mark_push(m, slot, mark) ==
    IF \A i \in 1..Len(m) : IsSome(m[i]) THEN Append(m, Some(mark))
    ELSE [m EXCEPT ![slot + 1] = Some(mark)]

\* self.marks[slot] = Some(mark)
store_mark(m, slot, mark) == [m EXCEPT ![slot + 1] = Some(mark)]

\* mark_current_file: the marks after the call.
mark_current_file(m, p) ==
    store_mark(m, mark_slot(m), HarpoonMark(p, display_name_of(p)))

\* get_mark
get_mark(m, slot) == IF slot < Len(m) THEN m[slot + 1] ELSE None

\* Mutant of remove_hits: the slot is in range, occupied or not.
remove_hits_in_range(m, slot) == slot < Len(m)

\* remove_mark: whether the slot is in range and occupied.
remove_hits(m, slot) == slot < Len(m) /\ IsSome(m[slot + 1])

\* self.marks[slot] = None
remove_mark(m, slot) == [m EXCEPT ![slot + 1] = None]

\* self.marks.fill(None)
clear_all(m) == [i \in 1..Len(m) |-> None]

\* get_all_marks: the (slot, mark) pairs of the occupied slots, in slot order.
RECURSIVE get_all_marks_from(_, _)
get_all_marks_from(m, i) ==
    IF i >= Len(m) THEN <<>>
    ELSE IF IsSome(m[i + 1])
         THEN <<(<<i, Unwrap(m[i + 1])>>)>> \o get_all_marks_from(m, i + 1)
         ELSE get_all_marks_from(m, i + 1)

get_all_marks(m) == get_all_marks_from(m, 0)

\* Mutant of is_marked_from: the first occupied slot, whatever its path.
RECURSIVE is_marked_any(_, _, _)
is_marked_any(m, p, i) ==
    IF i >= Len(m) THEN None
    ELSE IF IsSome(m[i + 1]) THEN Some(i)
    ELSE is_marked_any(m, p, i + 1)

\* is_marked: position of the first slot whose mark has the path.
RECURSIVE is_marked_from(_, _, _)
is_marked_from(m, p, i) ==
    IF i >= Len(m) THEN None
    ELSE IF IsSome(m[i + 1]) /\ Unwrap(m[i + 1]).project_path = p THEN Some(i)
    ELSE is_marked_from(m, p, i + 1)

is_marked(m, p) == is_marked_from(m, p, 0)

StoreInit ==
    /\ marks = new_marks
    /\ call = [op |-> "new", position |-> None, ret |-> <<>>,
               emitted |-> <<>>]

MarkCurrentFile(p) ==
    /\ marks' = mark_current_file(marks, p)
    /\ call' = [op |-> "mark_current_file", position |-> position_none_from(marks, 0),
                ret |-> <<"Ok", mark_slot(marks)>>,
                emitted |-> <<"MarksChanged">>]
    /\ UNCHANGED <<globalVars, pickerVars, backlinkVars>>

RemoveMark(slot) ==
    /\ IF remove_hits(marks, slot)
       THEN /\ marks' = remove_mark(marks, slot)
            /\ call' = [op |-> "remove_mark", position |-> None,
                        ret |-> <<TRUE>>, emitted |-> <<"MarksChanged">>]
       ELSE /\ marks' = marks
            /\ call' = [op |-> "remove_mark", position |-> None,
                        ret |-> <<FALSE>>, emitted |-> <<>>]
    /\ UNCHANGED <<globalVars, pickerVars, backlinkVars>>

ClearAll ==
    /\ marks' = clear_all(marks)
    /\ call' = [op |-> "clear_all", position |-> None, ret |-> <<>>,
                emitted |-> <<"MarksChanged">>]
    /\ UNCHANGED <<globalVars, pickerVars, backlinkVars>>

StoreNext ==
    \/ \E p \in MarkPaths : MarkCurrentFile(p)
    \/ \E slot \in 0..MaxSlotArg : RemoveMark(slot)
    \/ ClearAll

\* ------------------------------------------------------------ GlobalHarpoonStore
ProjectIds == 1..NumProjects

\* A map as a function on its key set.
EmptyMap == [k \in {} |-> 0]
MapInsert(map, k, v) == [x \in DOMAIN map \cup {k} |-> IF x = k THEN v ELSE map[x]]
MapGet(map, k) == IF k \in DOMAIN map THEN Some(map[k]) ELSE None

\* weak_project.upgrade().is_some()
upgrades(state, p) == state[p] = "live"

\* global_store.stores.retain(|weak_project, _| weak_project.upgrade().is_some())
retain_live(map, state) ==
    [k \in {x \in DOMAIN map : upgrades(state, x)} |-> map[k]]

\* Mutant of lookup_store: the existing store is never found.
lookup_none(map, p) == None

\* global_store.stores.get(&project_weak)
lookup_store(map, p) == MapGet(map, p)

GlobalInit ==
    /\ project_state = [p \in ProjectIds |-> "live"]
    /\ stores = EmptyMap
    /\ next_entity = 0
    /\ handles = [p \in ProjectIds |-> {}]
    /\ got = None

\* get_or_create_harpoon_store(&project, cx): the caller holds a strong
\* handle, so the project is live.
GetOrCreateHarpoonStore(p) ==
    /\ project_state[p] = "live"
    /\ LET retained == retain_live(stores, project_state)
           found == lookup_store(retained, p)
       IN  IF IsSome(found)
           THEN /\ stores' = retained
                /\ next_entity' = next_entity
                /\ handles' = [handles EXCEPT ![p] = @ \cup {Unwrap(found)}]
                /\ got' = Some([project |-> p, store |-> Unwrap(found),
                                created |-> FALSE])
           ELSE LET store == next_entity + 1
                IN  /\ next_entity' = store
                    /\ stores' = MapInsert(retained, p, store)
                    /\ handles' = [handles EXCEPT ![p] = @ \cup {store}]
                    /\ got' = Some([project |-> p, store |-> store,
                                    created |-> TRUE])
    /\ UNCHANGED <<project_state, storeVars, pickerVars, backlinkVars>>

\* The last strong handle of a project is released.
DropProject(p) ==
    /\ project_state[p] = "live"
    /\ project_state' = [project_state EXCEPT ![p] = "dropped"]
    /\ UNCHANGED <<stores, next_entity, handles, got, storeVars, pickerVars, backlinkVars>>

GlobalNext ==
    \/ \E p \in ProjectIds : GetOrCreateHarpoonStore(p)
    \/ \E p \in ProjectIds : DropProject(p)

\* ------------------------------------------------------------ HarpoonPicker
\* The contents a store can have after at most k calls.
RECURSIVE StoresWithin(_)
StoresWithin(k) ==
    IF k = 0 THEN {new_marks}
    ELSE LET S == StoresWithin(k - 1)
         IN  S \cup {mark_current_file(m, p) : m \in S, p \in MarkPaths}
               \cup {remove_mark(m, slot) :
                        <<m, slot>> \in {x \in S \X (0..MaxSlotArg) :
                                            remove_hits(x[1], x[2])}}
               \cup {clear_all(m) : m \in S}

\* Vec::get
vec_get(v, i) == IF i < Len(v) THEN Some(v[i + 1]) ELSE None

\* Mutant of move_selection: the next index is not wrapped.
move_selection_nowrap(p, direction) ==
    IF Len(p.marks) = 0 THEN p
    ELSE [p EXCEPT !.selected_index =
            IF direction > 0 THEN p.selected_index + 1
            ELSE IF p.selected_index = 0 THEN Len(p.marks) - 1
            ELSE p.selected_index - 1]

\* HarpoonPicker::move_selection: the picker after the call.
move_selection(p, direction) ==
    IF Len(p.marks) = 0 THEN p
    ELSE [p EXCEPT !.selected_index =
            IF direction > 0 THEN (p.selected_index + 1) % Len(p.marks)
            ELSE IF p.selected_index = 0 THEN Len(p.marks) - 1
            ELSE p.selected_index - 1]

\* HarpoonPicker::confirm_selection: the paths it asks the workspace to open.
confirm_opens(p, alive) ==
    LET item == vec_get(p.marks, p.selected_index)
    IN  IF IsSome(item) /\ alive THEN <<Unwrap(item)[2].project_path>> ELSE <<>>

PickerInit ==
    /\ picker = None
    /\ workspace_alive = TRUE
    /\ pcall = [op |-> "none", emitted |-> <<>>, opened |-> <<>>]

\* HarpoonPicker::new: the marks of the project's store are copied.
NewPicker ==
    /\ picker' = Some([marks |-> get_all_marks(marks), selected_index |-> 0])
    /\ pcall' = [op |-> "new", emitted |-> <<>>, opened |-> <<>>]
    /\ UNCHANGED <<workspace_alive, storeVars, globalVars, backlinkVars>>

MoveSelection(direction) ==
    /\ IsSome(picker)
    /\ picker' = Some(move_selection(Unwrap(picker), direction))
    /\ pcall' = [op |-> "move_selection", emitted |-> <<>>, opened |-> <<>>]
    /\ UNCHANGED <<workspace_alive, storeVars, globalVars, backlinkVars>>

ConfirmSelection ==
    /\ IsSome(picker)
    /\ pcall' = [op |-> "confirm_selection", emitted |-> <<"DismissEvent">>,
                 opened |-> confirm_opens(Unwrap(picker), workspace_alive)]
    /\ UNCHANGED <<picker, workspace_alive, storeVars, globalVars, backlinkVars>>

Cancel ==
    /\ IsSome(picker)
    /\ pcall' = [op |-> "cancel", emitted |-> <<"DismissEvent">>, opened |-> <<>>]
    /\ UNCHANGED <<picker, workspace_alive, storeVars, globalVars, backlinkVars>>

\* The workspace entity is released while the picker still holds its weak handle.
DropWorkspace ==
    /\ workspace_alive
    /\ workspace_alive' = FALSE
    /\ UNCHANGED <<picker, pcall, storeVars, globalVars, backlinkVars>>

PickerNext ==
    \/ NewPicker
    \/ \E direction \in {-1, 1} : MoveSelection(direction)
    \/ ConfirmSelection
    \/ Cancel
    \/ DropWorkspace

\* ------------------------------------------------------------ strings
\* A byte that is not valid UTF-8.
INVALID_BYTE == "\\xFF"
REPLACEMENT_CHARACTER == "\\uFFFD"

\* OsStr::to_str: None when the bytes are not valid UTF-8.
to_str(os) ==
    IF \E i \in 1..Len(os) : os[i] = INVALID_BYTE THEN None ELSE Some(os)

\* OsStr::to_string_lossy
to_string_lossy(os) ==
    [i \in 1..Len(os) |-> IF os[i] = INVALID_BYTE THEN REPLACEMENT_CHARACTER
                          ELSE os[i]]

\* The index of the last '.' among the first i characters, 0 when none.
RECURSIVE rfind_dot(_, _)
rfind_dot(name, i) ==
    IF i = 0 THEN 0
    ELSE IF name[i] = "." THEN i
    ELSE rfind_dot(name, i - 1)

\* std::path's split of a file name at its last '.': <<before, after>>; a
\* name without '.' is all "after", a name whose only '.' is its first
\* character is all "before".
rsplit_file_at_dot(name) ==
    LET dot == rfind_dot(name, Len(name))
    IN  IF dot = 0 THEN <<None, Some(name)>>
        ELSE IF dot = 1 THEN <<Some(name), None>>
        ELSE <<Some(SubSeq(name, 1, dot - 1)),
               Some(SubSeq(name, dot + 1, Len(name)))>>

\* Path::file_stem
file_stem(path) ==
    LET name == file_name(path)
    IN  IF IsNone(name) THEN None
        ELSE LET parts == rsplit_file_at_dot(Unwrap(name))
             IN  IF IsSome(parts[1]) THEN parts[1] ELSE parts[2]

\* Path::extension
extension(path) ==
    LET name == file_name(path)
    IN  IF IsNone(name) THEN None
        ELSE LET parts == rsplit_file_at_dot(Unwrap(name))
             IN  IF IsSome(parts[1]) THEN parts[2] ELSE None

\* char::is_whitespace, for the characters that occur in a line.
is_whitespace(c) == c \in {" ", "\t"}

\* str::trim_start
RECURSIVE trim_start(_)
trim_start(s) ==
    IF Len(s) > 0 /\ is_whitespace(s[1]) THEN trim_start(Tail(s)) ELSE s

\* str::trim_end
RECURSIVE trim_end(_)
trim_end(s) ==
    IF Len(s) > 0 /\ is_whitespace(s[Len(s)])
    THEN trim_end(SubSeq(s, 1, Len(s) - 1)) ELSE s

\* str::trim
trim(s) == trim_end(trim_start(s))

\* str::lines from character i on, cur being the line read so far: the text
\* is split at each "\n", and the last line needs no line ending.
RECURSIVE lines_from(_, _, _)
lines_from(s, i, cur) ==
    IF i > Len(s) THEN (IF Len(cur) = 0 THEN <<>> ELSE <<cur>>)
    ELSE IF s[i] = "\n" THEN <<cur>> \o lines_from(s, i + 1, <<>>)
    ELSE lines_from(s, i + 1, Append(cur, s[i]))

\* content_str.lines().collect()
lines(s) == lines_from(s, 1, <<>>)

\* ------------------------------------------------------------ regex
\* A compiled pattern is a sequence of items: a literal character, or a
\* negated one-character class under * or +.
Lit(c) == [kind |-> "lit", c |-> c]
NotStar(c) == [kind |-> "not_star", c |-> c]
NotPlus(c) == [kind |-> "not_plus", c |-> c]

\* regex::escape, as parsed: every character stands for itself.
escape(s) == [i \in 1..Len(s) |-> Lit(s[i])]

\* Regex::new(&format!(r"\[\[{}\]\]", regex::escape(&target_file_name)))
wiki_link_pattern(stem) ==
    Some(<<Lit("["), Lit("[")>> \o escape(stem) \o <<Lit("]"), Lit("]")>>)

\* Regex::new(r"(?!.*)"): the regex crate supports no look-around and
\* rejects the pattern.
never_match_pattern == None

\* Regex::new of r"\[([^\]]+)\]\([^)]*{}[^)]*\)" with the escaped file name,
\* or of the fallback pattern when the file name is not valid UTF-8.
md_link_pattern(path) ==
    LET name == file_name(path)
        str == IF IsSome(name) THEN to_str(Unwrap(name)) ELSE None
    IN  IF IsSome(str)
        THEN Some(<<Lit("["), NotPlus("]"), Lit("]"), Lit("("), NotStar(")")>>
                    \o escape(Unwrap(str)) \o <<NotStar(")"), Lit(")")>>)
        ELSE never_match_pattern

\* Whether items pi.. of the pattern match the text from position i on.
RECURSIVE match_here(_, _, _, _)
match_here(pat, pi, s, i) ==
    IF pi > Len(pat) THEN TRUE
    ELSE LET item == pat[pi]
             more == i <= Len(s)
         IN  CASE item.kind = "lit" ->
                    more /\ s[i] = item.c /\ match_here(pat, pi + 1, s, i + 1)
               [] item.kind = "not_star" ->
                    \/ match_here(pat, pi + 1, s, i)
                    \/ more /\ s[i] # item.c /\ match_here(pat, pi, s, i + 1)
               [] item.kind = "not_plus" ->
                    more /\ s[i] # item.c
                         /\ \/ match_here(pat, pi + 1, s, i + 1)
                            \/ match_here(pat, pi, s, i + 1)

\* Regex::is_match: the pattern matches somewhere in the text.
is_match(pat, s) == \E i \in 1..(Len(s) + 1) : match_here(pat, 1, s, i)

\* ------------------------------------------------------------ project and files
Worktree(id, visible, abs_path, es) ==
    [id |-> id, visible |-> visible, abs_path |-> abs_path, entries |-> es]
Entry(path, is_file, is_ignored) ==
    [path |-> path, is_file |-> is_file, is_ignored |-> is_ignored]

\* Worktree::entries(include_ignored, start): the entries in path order from
\* offset start on, without the ignored ones unless they are asked for.
RECURSIVE worktree_entries(_, _, _)
worktree_entries(es, include_ignored, start) ==
    IF start >= Len(es) THEN <<>>
    ELSE LET e == es[start + 1]
             rest == worktree_entries(es, include_ignored, start + 1)
         IN  IF include_ignored \/ ~e.is_ignored THEN <<e>> \o rest ELSE rest

\* WorktreeStore::visible_worktrees
RECURSIVE visible_worktrees(_)
visible_worktrees(wts) ==
    IF Len(wts) = 0 THEN <<>>
    ELSE IF wts[1].visible THEN <<wts[1]>> \o visible_worktrees(Tail(wts))
    ELSE visible_worktrees(Tail(wts))

\* PathBuf::join of a relative path
join(abs_path, path) == abs_path \o path

\* WorktreeStore::absolutize: None when no worktree has the path's id.
absolutize(wts, project_path) ==
    LET hits == {i \in 1..Len(wts) : wts[i].id = project_path.worktree_id}
    IN  IF hits = {} THEN None
        ELSE Some(join(wts[CHOOSE i \in hits : \A j \in hits : i <= j].abs_path,
                       project_path.path))

\* fs.load(&abs_path): the content, None when the file cannot be read.
fs_load(files, abs_path) ==
    IF abs_path \in DOMAIN files THEN Some(files[abs_path]) ELSE None

\* ------------------------------------------------------------ find_backlinks
Ok(v) == [ok |-> TRUE, value |-> v]
Err == [ok |-> FALSE, value |-> <<>>]

BacklinkEntry(project_path, abs_path, context, line_number) ==
    [path |-> project_path,
     abs_path |-> abs_path,
     display_name |->
        LET stem == file_stem(project_path.path)
        IN  to_string_lossy(IF IsSome(stem) THEN Unwrap(stem) ELSE <<>>),
     worktree_id |-> project_path.worktree_id,
     context |-> context,
     line_number |-> line_number]

\* The markdown files of one worktree among entries es, the target excluded.
RECURSIVE markdown_files_of(_, _, _)
markdown_files_of(wt, es, target_abs_path) ==
    IF Len(es) = 0 THEN <<>>
    ELSE LET entry == es[1]
             abs_path == join(wt.abs_path, entry.path)
             rest == markdown_files_of(wt, Tail(es), target_abs_path)
         IN  IF /\ entry.is_file
                /\ extension(entry.path) = Some(<<"m", "d">>)
                /\ abs_path # target_abs_path
             THEN <<(<<ProjectPath(wt.id, entry.path), abs_path>>)>> \o rest
             ELSE rest

\* The markdown files of the visible worktrees wts, in worktree order.
RECURSIVE markdown_files(_, _)
markdown_files(wts, target_abs_path) ==
    IF Len(wts) = 0 THEN <<>>
    ELSE markdown_files_of(wts[1], worktree_entries(wts[1].entries, FALSE, 0),
                           target_abs_path)
            \o markdown_files(Tail(wts), target_abs_path)

\* The entries of the lines ls of one file from line line_number on.
RECURSIVE scan_lines(_, _, _, _, _, _)
scan_lines(project_path, abs_path, ls, line_number, wiki, md) ==
    IF line_number >= Len(ls) THEN <<>>
    ELSE LET line == ls[line_number + 1]
             has_wiki_link == is_match(wiki, line)
             has_md_link == is_match(md, line)
             rest == scan_lines(project_path, abs_path, ls, line_number + 1,
                                wiki, md)
         IN  IF has_wiki_link \/ has_md_link
             THEN <<BacklinkEntry(project_path, abs_path, trim(line),
                                  line_number)>> \o rest
             ELSE rest

\* The entries of the files, each loaded and scanned in turn.
RECURSIVE scan_files(_, _, _, _)
scan_files(files, mds, wiki, md) ==
    IF Len(mds) = 0 THEN <<>>
    ELSE LET content == fs_load(files, mds[1][2])
             rest == scan_files(files, Tail(mds), wiki, md)
         IN  IF IsSome(content)
             THEN scan_lines(mds[1][1], mds[1][2], lines(Unwrap(content)), 0,
                             wiki, md) \o rest
             ELSE rest

\* BacklinksPanel::find_backlinks
find_backlinks(wts, files, target_path) ==
    LET stem == file_stem(target_path.path)
        stem_str == IF IsSome(stem) THEN to_str(Unwrap(stem)) ELSE None
        target_file_name == IF IsSome(stem_str) THEN Unwrap(stem_str) ELSE <<>>
        absolute == absolutize(wts, target_path)
        target_abs_path == IF IsSome(absolute) THEN Unwrap(absolute)
                           ELSE target_path.path
        wiki == wiki_link_pattern(target_file_name)
        md == md_link_pattern(target_path.path)
    IN  IF Len(target_file_name) = 0 THEN Ok(<<>>)
        ELSE IF IsNone(wiki) \/ IsNone(md) THEN Err
        ELSE Ok(scan_files(files,
                           markdown_files(visible_worktrees(wts), target_abs_path),
                           Unwrap(wiki), Unwrap(md)))

\* ------------------------------------------------------------ the project scanned
\* File and directory names.
N_a_md == <<"a", ".", "m", "d">>
N_a_bad == <<"a", ".", INVALID_BYTE>>
N_b_md == <<"b", ".", "m", "d">>
N_c == <<"c">>
N_d_md == <<"d", ".", "m", "d">>
N_e_txt == <<"e", ".", "t", "x", "t">>
N_g_md == <<"g", ".", "m", "d">>
N_h_md == <<"h", ".", "m", "d">>
N_k_md == <<"k", ".", "m", "d">>
N_n == <<"n">>
N_p == <<"p">>
N_q == <<"q">>
N_r == <<"r">>
N_s_md == <<"s", ".", "m", "d">>
N_z_md == <<"z", ".", "m", "d">>

\* Pieces of text.
NL == <<"\n">>
WikiA == <<"[", "[", "a", "]", "]">>
WikiB == <<"[", "[", "b", "]", "]">>
LinkTo(text, dest) == <<"[">> \o text \o <<"]", "(">> \o dest \o <<")">>

\* The lines the varying file b.md is written from: links to a.md in both
\* syntaxes, alone and together, with surrounding whitespace, with a longer
\* destination, and near misses of each syntax.
LinePool ==
    << WikiA,
       <<" ">> \o WikiA \o <<"\t">>,
       LinkTo(<<"t">>, N_a_md),
       WikiA \o <<" ">> \o LinkTo(<<"t">>, N_a_md),
       LinkTo(<<"t">>, <<"n", "/">> \o N_a_md \o <<"#", "h">>),
       <<>>,
       LinkTo(<<>>, N_a_md),
       <<"[", "t", "]", " ", "(">> \o N_a_md \o <<")">>,
       LinkTo(<<"t">>, <<"x">>) \o <<"(">> \o N_a_md \o <<")">>,
       LinkTo(<<"t">>, <<"a", "x", "m", "d">>),
       <<"[", "[", "a", "]">>,
       <<"[", "[">> \o N_a_md \o <<"]", "]">>,
       <<"x">> \o WikiB >>

\* The texts of at most n lines of the pool, each line ended by "\n".
RECURSIVE TextsOf(_)
TextsOf(n) ==
    IF n = 0 THEN {<<>>}
    ELSE LET shorter == TextsOf(n - 1)
         IN  shorter \cup {t \o LinePool[i] \o NL :
                             t \in shorter, i \in 1..Len(LinePool)}

\* The contents of b.md: a text, with or without its last line ending.
Contents ==
    LET texts == TextsOf(MaxLines)
    IN  texts \cup {SubSeq(t, 1, Len(t) - 1) : t \in texts \ {<<>>}}

\* Worktree 1 at /p is visible: markdown files, a file whose name is not
\* valid UTF-8, files that are not markdown, a directory named like a
\* markdown file, an ignored and an unreadable markdown file, and a nested
\* one.  Worktree 2 at /q is not visible.  Worktree 3 is the single file
\* /r/s.md, whose only entry has the empty path.
TheWorktrees ==
    << Worktree(1, TRUE, <<N_p>>,
            << Entry(<<N_a_bad>>, TRUE, FALSE),
               Entry(<<N_a_md>>, TRUE, FALSE),
               Entry(<<N_b_md>>, TRUE, FALSE),
               Entry(<<N_c>>, TRUE, FALSE),
               Entry(<<N_d_md>>, FALSE, FALSE),
               Entry(<<N_e_txt>>, TRUE, FALSE),
               Entry(<<N_g_md>>, TRUE, TRUE),
               Entry(<<N_h_md>>, TRUE, FALSE),
               Entry(<<N_n>>, FALSE, FALSE),
               Entry(<<N_n, N_k_md>>, TRUE, FALSE) >>),
       Worktree(2, FALSE, <<N_q>>,
            << Entry(<<N_z_md>>, TRUE, FALSE) >>),
       Worktree(3, TRUE, <<N_r, N_s_md>>,
            << Entry(<<>>, TRUE, FALSE) >>) >>

\* The files that can be read, b.md having the given content.
FilesWith(b_content) ==
    LET a == WikiA \o NL \o LinkTo(<<"t">>, N_b_md)
        k == <<" ", " ">> \o WikiA \o <<" ">> \o NL \o NL
                \o LinkTo(<<"x">>, <<".", ".", "/">> \o N_b_md) \o <<" ">> \o WikiB
        both == WikiA \o NL \o WikiB \o NL
        paths == {<<N_p, N_a_bad>>, <<N_p, N_a_md>>, <<N_p, N_b_md>>, <<N_p, N_c>>,
                  <<N_p, N_e_txt>>, <<N_p, N_g_md>>, <<N_p, N_n, N_k_md>>,
                  <<N_q, N_z_md>>, <<N_r, N_s_md>>}
    IN  [path \in paths |->
            IF path = <<N_p, N_a_md>> THEN a
            ELSE IF path = <<N_p, N_b_md>> THEN b_content
            ELSE IF path = <<N_p, N_n, N_k_md>> THEN k
            ELSE both]

\* The files that become the active file of the workspace.
ActiveFiles ==
    { ProjectPath(1, <<N_a_md>>),
      ProjectPath(1, <<N_b_md>>),
      ProjectPath(1, <<N_a_bad>>),
      ProjectPath(3, <<>>) }

\* ------------------------------------------------------------ BacklinksPanel
\* No step of the panel yet.
NoCall == [op |-> "none", file_path |-> None, spawned |-> FALSE]

\* A project without worktrees, and no panel activity: the part of the
\* state the mark store, the global map and the picker leave alone.
NoBacklinks ==
    /\ worktrees = <<>>
    /\ fs = <<>>
    /\ current_file_path = None
    /\ entries = <<>>
    /\ update_task = None
    /\ scanned = None
    /\ bcall = NoCall

\* The contents of b.md under which the panel is exercised: the panel's
\* steps do not depend on what a scan finds, so shorter texts do.
PanelContents == TextsOf(MaxLines - 1)

\* BacklinksPanel::load: the fields of a new panel.
PanelInit ==
    /\ current_file_path = None
    /\ entries = <<>>
    /\ update_task = None

\* Mutant of spawned: the new task is not stored, so it is dropped and
\* cancelled at once and the old one stays.
spawned_dropped(task, file_path) == task

\* self.update_task = Some(task): the task scanning file_path replaces the
\* old one, which is dropped and thereby cancelled.
spawned(task, file_path) == Some([target |-> file_path, state |-> "pending"])

\* The entries after a scan has delivered its result.
scan_entries(old, backlinks) == IF backlinks.ok THEN backlinks.value ELSE <<>>

\* Mutant of no_change_needed: the early return is never taken.
change_always_needed(current, file_path) == FALSE

\* if self.current_file_path == file_path { return; }
no_change_needed(current, file_path) == current = file_path

\* BacklinksPanel::update_backlinks, as called by render with the project
\* path of the active item.
UpdateBacklinks(file_path) ==
    /\ IF no_change_needed(current_file_path, file_path)
       THEN /\ UNCHANGED panelVars
            /\ bcall' = [op |-> "update_backlinks", file_path |-> file_path,
                         spawned |-> FALSE]
       ELSE /\ current_file_path' = file_path
            /\ IF IsSome(file_path)
               THEN /\ update_task' = spawned(update_task, Unwrap(file_path))
                    /\ entries' = entries
               ELSE /\ entries' = <<>>
                    /\ update_task' = update_task
            /\ bcall' = [op |-> "update_backlinks", file_path |-> file_path,
                         spawned |-> IsSome(file_path)]
    /\ UNCHANGED <<storeVars, globalVars, pickerVars, worldVars, scanned>>

\* The task held in update_task, not yet ended, ends.
TaskEnds ==
    /\ IsSome(update_task)
    /\ Unwrap(update_task).state = "pending"
    /\ update_task' = Some([Unwrap(update_task) EXCEPT !.state = "finished"])

\* The task held in update_task runs to its end: find_backlinks returns and
\* the result is written into the panel.
ScanCompletes ==
    /\ TaskEnds
    /\ entries' = scan_entries(entries,
                    find_backlinks(worktrees, fs, Unwrap(update_task).target))
    /\ bcall' = [op |-> "task", file_path |-> Some(Unwrap(update_task).target),
                 spawned |-> FALSE]
    /\ UNCHANGED <<current_file_path, storeVars, globalVars, pickerVars,
                   worldVars, scanned>>

\* find_backlinks called on its own.
FindBacklinks(target_path) ==
    /\ scanned' = Some([target_path |-> target_path,
                        result |-> find_backlinks(worktrees, fs, target_path)])
    /\ UNCHANGED <<storeVars, globalVars, pickerVars, worldVars, panelVars, bcall>>

\* ------------------------------------------------------------ specifications
\* The mark store under every sequence of calls.
Init == StoreInit /\ GlobalInit /\ PickerInit /\ NoBacklinks
Next == StoreNext
Spec == Init /\ [][Next]_vars

\* The global map of stores under calls and project releases.
SpecGlobal == Init /\ [][GlobalNext]_vars

\* A picker over a store that has seen some calls.
InitPicker ==
    /\ marks \in StoresWithin(MaxStoreOps)
    /\ call = [op |-> "new", position |-> None, ret |-> <<>>, emitted |-> <<>>]
    /\ GlobalInit
    /\ PickerInit
    /\ NoBacklinks
SpecPicker == InitPicker /\ [][PickerNext]_vars

\* The panel under changes of the active file and completions of scans.
InitPanel ==
    /\ StoreInit /\ GlobalInit /\ PickerInit
    /\ worktrees = TheWorktrees
    /\ fs \in {FilesWith(c) : c \in PanelContents}
    /\ PanelInit
    /\ scanned = None
    /\ bcall = NoCall
NextPanel ==
    \/ \E f \in ActiveFiles : UpdateBacklinks(Some(f))
    \/ UpdateBacklinks(None)
    \/ ScanCompletes
SpecPanel == InitPanel /\ [][NextPanel]_vars

\* The same, every task that stays in update_task running to its end: the
\* steps of SpecPanel that end a task are those of ScanCompletes.
SpecPanelFair == SpecPanel /\ WF_update_task(TaskEnds)

\* find_backlinks over the contents of b.md and the targets.
InitScan ==
    /\ StoreInit /\ GlobalInit /\ PickerInit
    /\ worktrees = TheWorktrees
    /\ fs \in {FilesWith(c) : c \in Contents}
    /\ PanelInit
    /\ scanned = None
    /\ bcall = NoCall
NextScan == \E t \in ActiveFiles : FindBacklinks(t)
SpecScan == InitScan /\ [][NextScan]_vars

\* ------------------------------------------------------------ claims: store
Slots == 0..(MAX_HARPOON_SLOTS - 1)
Occupied(m) == {i \in 0..(Len(m) - 1) : IsSome(m[i + 1])}
Holders(m, p) == {i \in Occupied(m) : Unwrap(m[i + 1]).project_path = p}
StoreFull(m) == \A i \in 1..Len(m) : IsSome(m[i])
QueryPaths == {PathPool[i] : i \in 1..Len(PathPool)}

\* C1: a store has exactly 9 slots after new and after every sequence of
\* mark_current_file, remove_mark and clear_all, so it never holds more
\* than 9 marks.
C1_FixedCapacity ==
    /\ Len(marks) = 9
    /\ Len(get_all_marks(marks)) <= 9

\* C1 witness: every slot is occupied and the last call marked a file.
C1_Witness ==
    /\ call.op = "mark_current_file"
    /\ Cardinality(Occupied(marks)) = 9

\* C2: each project path occupies at most one slot.
C2_NoDuplicates ==
    \A i, j \in 1..Len(marks) :
        (i # j /\ IsSome(marks[i]) /\ IsSome(marks[j]))
            => Unwrap(marks[i]).project_path # Unwrap(marks[j]).project_path

\* C6: with an empty slot, mark_current_file(p) stores p in the lowest empty
\* slot s, returns Ok(s) with 0 <= s <= 8, get_mark(s) then has path p, every
\* other slot is unchanged, and MarksChanged is emitted.
C6_MarkFillsLowestEmpty ==
    [][\A p \in MarkPaths :
        (call'.op = "mark_current_file" /\ ~StoreFull(marks) /\ MarkCurrentFile(p)) =>
            \E s \in Slots :
                /\ IsNone(marks[s + 1])
                /\ \A t \in 0..(s - 1) : IsSome(marks[t + 1])
                /\ call'.ret = <<"Ok", s>>
                /\ IsSome(get_mark(marks', s))
                /\ Unwrap(get_mark(marks', s)).project_path = p
                /\ \A t \in Slots \ {s} : marks'[t + 1] = marks[t + 1]
                /\ Len(marks') = Len(marks)
                /\ call'.emitted = <<"MarksChanged">>]_vars

\* C6 witness: a mark was stored in a slot above an occupied one while a
\* higher slot holds another mark (the lowest hole was filled).
C6_Witness ==
    /\ call.op = "mark_current_file"
    /\ IsSome(call.position)
    /\ call.ret = <<"Ok", 1>>
    /\ IsSome(marks[1]) /\ IsSome(marks[3])

\* C9: with all 9 slots occupied, mark_current_file(p) replaces the mark in
\* slot 0 with p, returns Ok(0) and leaves slots 1..8 unchanged; it returns
\* no error and writes no slot outside the array.
C9_FullStoreUsesSlotZero ==
    [][\A p \in MarkPaths :
        (call'.op = "mark_current_file" /\ StoreFull(marks) /\ Len(marks) = 9
            /\ MarkCurrentFile(p)) =>
            /\ call'.ret = <<"Ok", 0>>
            /\ IsSome(marks'[1])
            /\ Unwrap(marks'[1]).project_path = p
            /\ \A t \in 1..8 : marks'[t + 1] = marks[t + 1]
            /\ DOMAIN marks' = 1..9]_vars

\* C9 witness: the last call marked a file and found no empty slot, and the
\* mark it wrote to slot 0 differs from the one in slot 1.
C9_Witness ==
    /\ call.op = "mark_current_file"
    /\ IsNone(call.position)
    /\ StoreFull(marks)
    /\ marks[1] # marks[2]

\* C10: is_marked(p) is Some(i) exactly when some slot holds p, i is then the
\* lowest such slot and get_mark(i) has path p; it is None exactly when no
\* slot holds p; get_mark(i) is None for every i >= 9.
C10_LookupConsistent ==
    /\ \A p \in QueryPaths :
        LET r == is_marked(marks, p)
        IN  /\ IsSome(r) <=> Holders(marks, p) # {}
            /\ IsNone(r) <=> Holders(marks, p) = {}
            /\ IsSome(r) =>
                /\ Unwrap(r) \in Holders(marks, p)
                /\ \A j \in Holders(marks, p) : Unwrap(r) <= j
                /\ IsSome(get_mark(marks, Unwrap(r)))
                /\ Unwrap(get_mark(marks, Unwrap(r))).project_path = p
    /\ \A i \in 9..MaxSlotArg : get_mark(marks, i) = None

\* C10 witness: a path is held by two slots, neither of them slot 0, and
\* slot 0 holds another path.
C10_Witness ==
    \E p \in QueryPaths :
        /\ Cardinality(Holders(marks, p)) = 2
        /\ 0 \in Occupied(marks)
        /\ is_marked(marks, p) = Some(1)

\* ------------------------------------------------------------ claims: global map
\* C12: remove_mark(slot) returns true exactly when slot < 9 and the slot is
\* occupied; then the slot is empty afterwards, every other slot is as
\* before and MarksChanged is emitted; otherwise the store is as before and
\* nothing is emitted.
C12_RemoveMark ==
    [][call'.op = "remove_mark" =>
        \A slot \in 0..MaxSlotArg :
            RemoveMark(slot) =>
                IF slot < 9 /\ slot \in Occupied(marks)
                THEN /\ call'.ret = <<TRUE>>
                     /\ Len(marks') = Len(marks)
                     /\ IsNone(marks'[slot + 1])
                     /\ \A i \in Slots \ {slot} : marks'[i + 1] = marks[i + 1]
                     /\ call'.emitted = <<"MarksChanged">>
                ELSE /\ call'.ret = <<FALSE>>
                     /\ marks' = marks
                     /\ call'.emitted = <<>>]_vars

\* C12 witness: a mark was removed from below another one, which is left.
C12_Witness ==
    /\ call.op = "remove_mark"
    /\ call.ret = <<TRUE>>
    /\ \E i, j \in Slots : i < j /\ i \notin Occupied(marks) /\ j \in Occupied(marks)

\* C7: two calls with the same live project return the same store, calls
\* with different projects return different stores, and after each call the
\* map has no entry whose project has been dropped.
C7_StorePerProject ==
    /\ [](/\ \A p \in ProjectIds : Cardinality(handles[p]) <= 1
          /\ \A p, q \in ProjectIds : p # q => handles[p] \cap handles[q] = {})
    /\ [][\A p \in ProjectIds :
            GetOrCreateHarpoonStore(p) =>
                /\ \A k \in DOMAIN stores' : project_state'[k] = "live"
                /\ p \in DOMAIN stores'
                /\ got' = Some([project |-> p, store |-> stores'[p],
                                created |-> p \notin DOMAIN stores])
                /\ \A k \in DOMAIN stores' \ {p} :
                      k \in DOMAIN stores /\ stores'[k] = stores[k]]_vars

\* C7 witness: a project was asked for again and got its existing store,
\* after another project that had a store was dropped and swept from the map.
C7_Witness ==
    /\ IsSome(got)
    /\ ~Unwrap(got).created
    /\ \E q \in ProjectIds :
          /\ project_state[q] = "dropped"
          /\ handles[q] # {}
          /\ q \notin DOMAIN stores

\* ------------------------------------------------------------ claims: picker
\* C8: confirm_selection emits exactly one DismissEvent in every case and
\* asks to open a path exactly when the mark list is non-empty and the
\* workspace is alive, the path being that of the mark at selected_index;
\* cancel emits exactly one DismissEvent and opens nothing.
C8_ConfirmJumpsAndDismisses ==
    [][/\ ConfirmSelection =>
            LET p == Unwrap(picker)
            IN  /\ pcall'.emitted = <<"DismissEvent">>
                /\ Len(pcall'.opened) <= 1
                /\ Len(pcall'.opened) = 1 <=> (Len(p.marks) > 0 /\ workspace_alive)
                /\ Len(pcall'.opened) = 1 =>
                      pcall'.opened[1] = p.marks[p.selected_index + 1][2].project_path
       /\ Cancel =>
            /\ pcall'.emitted = <<"DismissEvent">>
            /\ pcall'.opened = <<>>]_vars

\* C8 witness: a confirm opened the path of a mark that is not the first of
\* the list.
C8_Witness ==
    /\ pcall.op = "confirm_selection"
    /\ Len(pcall.opened) = 1
    /\ IsSome(picker)
    /\ Unwrap(picker).selected_index > 0

\* ------------------------------------------------------------ claims: panel
\* What the panel shows for a file once its scan has delivered.
Shown(f) ==
    LET backlinks == find_backlinks(worktrees, fs, f)
    IN  IF backlinks.ok THEN backlinks.value ELSE <<>>

\* C3: a scan's result is written into entries only if the scan's target is
\* still the current file, and while no file is open entries stays empty.
C3_OnlyCurrentFileShown ==
    /\ [](IsNone(current_file_path) => entries = <<>>)
    /\ [][ScanCompletes =>
            current_file_path = Some(Unwrap(update_task).target)]_vars

\* C4: once the active file stays F, entries becomes the result of
\* find_backlinks for F, or empty if the scan failed, and stays so.
C4_EventuallyShowsBacklinks ==
    \A f \in ActiveFiles :
        <>[](current_file_path = Some(f)) => <>[](entries = Shown(f))

\* C4 witness: the scan of the current file has finished and its backlinks,
\* found in two files, are shown.
C4_Witness ==
    /\ IsSome(current_file_path)
    /\ update_task = Some([target |-> Unwrap(current_file_path),
                           state |-> "finished"])
    /\ entries = Shown(Unwrap(current_file_path))
    /\ \E i, j \in 1..Len(entries) : entries[i].path # entries[j].path

\* C11: update_backlinks called with the current file path spawns no scan
\* and leaves update_task, entries and current_file_path as they are, so
\* every call that spawns a scan changes the active file.
C11_SamePathIsNoOp ==
    [][bcall'.op = "update_backlinks" =>
        /\ bcall'.file_path = current_file_path =>
                ~bcall'.spawned /\ UNCHANGED panelVars
        /\ bcall'.spawned => current_file_path' # current_file_path]_vars

\* C11 witness: update_backlinks was called again with the file whose scan
\* is still running, and that scan is still the one held.
C11_Witness ==
    /\ IsSome(current_file_path)
    /\ bcall = [op |-> "update_backlinks", file_path |-> current_file_path,
                spawned |-> FALSE]
    /\ update_task = Some([target |-> Unwrap(current_file_path),
                           state |-> "pending"])

\* ------------------------------------------------------------ claims: scan
\* Whether sub occurs in s.
Contains(s, sub) ==
    \E i \in 1..(Len(s) + 1) :
        /\ i + Len(sub) - 1 <= Len(s)
        /\ SubSeq(s, i, i + Len(sub) - 1) = sub

\* The line contains the wiki link of the stem.
HasWikiLink(line, stem) == Contains(line, <<"[", "[">> \o stem \o <<"]", "]">>)

\* The line contains a markdown link, a text in brackets followed at once by
\* a destination in parentheses, whose destination contains the name.
HasMarkdownLink(line, name) ==
    \E open, close, last \in 1..Len(line) :
        /\ open + 1 < close
        /\ close + 1 < last
        /\ line[open] = "["
        /\ line[close] = "]"
        /\ line[close + 1] = "("
        /\ line[last] = ")"
        /\ \A i \in (open + 1)..(close - 1) : line[i] # "]"
        /\ \A i \in (close + 2)..(last - 1) : line[i] # ")"
        /\ Contains(SubSeq(line, close + 2, last - 1), name)

\* The line endings of a text, and the number of its lines.
LineEndings(text) == {i \in 1..Len(text) : text[i] = "\n"}
LineCount(text) ==
    Cardinality(LineEndings(text))
        + (IF Len(text) > 0 /\ text[Len(text)] # "\n" THEN 1 ELSE 0)

\* Line n of a text, counted from 0, without its line ending.
LineOf(text, n) ==
    LET ends == LineEndings(text)
        before == {i \in ends : Cardinality({j \in ends : j <= i}) = n}
        after == {i \in ends : Cardinality({j \in ends : j <= i}) = n + 1}
        first == IF n = 0 THEN 1 ELSE 1 + (CHOOSE i \in before : TRUE)
        last == IF after = {} THEN Len(text) ELSE (CHOOSE i \in after : TRUE) - 1
    IN  SubSeq(text, first, last)

\* A line without the whitespace at its two ends.
Trimmed(line) ==
    LET inked == {i \in 1..Len(line) : ~is_whitespace(line[i])}
    IN  IF inked = {} THEN <<>>
        ELSE SubSeq(line, CHOOSE i \in inked : \A j \in inked : i <= j,
                          CHOOSE i \in inked : \A j \in inked : j <= i)

\* The references to the target: one for each line with a link to it in each
\* readable file with extension md of a visible worktree other than the
\* target, the ignored files among them or not.
References(target_path, with_ignored) ==
    LET stem == Unwrap(file_stem(target_path.path))
        name == Unwrap(file_name(target_path.path))
        target_abs_path == Unwrap(absolutize(worktrees, target_path))
    IN  UNION { UNION {
            LET wt == worktrees[w]
                entry == wt.entries[e]
                abs_path == wt.abs_path \o entry.path
            IN  IF /\ wt.visible
                   /\ entry.is_file
                   /\ with_ignored \/ ~entry.is_ignored
                   /\ extension(entry.path) = Some(<<"m", "d">>)
                   /\ abs_path # target_abs_path
                   /\ abs_path \in DOMAIN fs
                THEN { [path |-> ProjectPath(wt.id, entry.path),
                        line_number |-> n,
                        context |-> Trimmed(LineOf(fs[abs_path], n))] :
                       n \in {m \in 0..(LineCount(fs[abs_path]) - 1) :
                                \/ HasWikiLink(LineOf(fs[abs_path], m), stem)
                                \/ HasMarkdownLink(LineOf(fs[abs_path], m), name)} }
                ELSE {} :
            e \in 1..Len(worktrees[w].entries) } :
            w \in 1..Len(worktrees) }

\* The list holds exactly the references, each once, those of one file
\* together and by ascending line number.
ListsReferences(list, references) ==
    /\ Len(list) = Cardinality(references)
    /\ { [path |-> list[i].path, line_number |-> list[i].line_number,
          context |-> list[i].context] : i \in 1..Len(list) } = references
    /\ \A i, j \in 1..Len(list) :
        i < j /\ list[i].path = list[j].path =>
            /\ list[i].line_number < list[j].line_number
            /\ \A k \in i..j : list[k].path = list[i].path

\* Whether the target's file stem is empty.
EmptyStem(target_path) ==
    \/ IsNone(file_stem(target_path.path))
    \/ Unwrap(file_stem(target_path.path)) = <<>>

\* C5: find_backlinks returns one entry, with 0-indexed line number and
\* trimmed line, for each line with a wiki or markdown link to the target in
\* each readable md file of a visible worktree other than the target, no
\* other entry, ordered by file and line; for an empty stem, the empty list.
C5_FindBacklinksReturnsReferences ==
    IsSome(scanned) =>
        LET target_path == Unwrap(scanned).target_path
            result == Unwrap(scanned).result
        IN  /\ result.ok
            /\ IF EmptyStem(target_path) THEN result.value = <<>>
               ELSE ListsReferences(result.value, References(target_path, TRUE))

\* What find_backlinks does return: an error for a target whose file name
\* is not valid UTF-8, and else the references in the files not ignored.
FindBacklinksReturns ==
    IsSome(scanned) =>
        LET target_path == Unwrap(scanned).target_path
            result == Unwrap(scanned).result
        IN  IF EmptyStem(target_path) THEN result = Ok(<<>>)
            ELSE IF IsNone(to_str(Unwrap(file_name(target_path.path))))
            THEN ~result.ok
            ELSE /\ result.ok
                 /\ ListsReferences(result.value, References(target_path, FALSE))

\* A scan that found references in two files.
FindBacklinksFound ==
    /\ IsSome(scanned)
    /\ \E i, j \in 1..Len(Unwrap(scanned).result.value) :
        Unwrap(scanned).result.value[i].path # Unwrap(scanned).result.value[j].path

====
